---- MODULE Spec2Model ----
(***************************************************************************)
(* State-machine model of convert_csv_to_netcdf (src/convert_csv.py).      *)
(*                                                                         *)
(* Representation.  A number is kept in tenths ([num |-> 345] is 34.5), a *)
(* value produced by astype('int32') in whole units ([int |-> 34]), a     *)
(* missing value is [nan |-> TRUE], None is [none |-> TRUE], and a string *)
(* is [str |-> s] with s a sequence of one-character (or one-token)       *)
(* strings.  A mapping (a Python dict, an attrs object) is a function     *)
(* whose DOMAIN is its key set.  Python's index 0 is index 1 here.         *)
(***************************************************************************)
EXTENDS Integers, Sequences, FiniteSets, TLC

VARIABLES
    config,   \* the dict handed to convert_csv_to_netcdf
    disk,     \* input files: path -> content, as pd.read_csv finds them
    pc,       \* the statement convert_csv_to_netcdf executes next
    idx,      \* position of data_file in data_files (0 before the loop)
    df,       \* the DataFrame of the current file
    ds,       \* the xr.Dataset of the current file
    out,      \* netcdf_file and output_path of the current file
    fs,       \* artifacts under the output directory: path -> dataset
    calls,    \* the paths ds.to_netcdf was called with, in order
    trace,    \* the dataset steps executed for the current file, in order
    err       \* the exception that left convert_csv_to_netcdf, or "none"

vars == <<config, disk, pc, idx, df, ds, out, fs, calls, trace, err>>

----------------------------------------------------------------------------
(* Bounds of the model *)

MaxFiles == 3
MaxRows == 3

----------------------------------------------------------------------------
(* Values *)

Num(n) == [num |-> n]
IntV(n) == [int |-> n]
Str(s) == [str |-> s]
NaN == [nan |-> TRUE]
None == [none |-> TRUE]

IsNaN(v) == DOMAIN v = {"nan"}
IsNum(v) == DOMAIN v = {"num"}

\* Mutant of Truthy: `if values is not None:`.
TruthyNotNone(v) == DOMAIN v # {"none"}

\* Python truthiness, as `if values:` evaluates it.
Truthy(v) ==
    IF DOMAIN v = {"str"} THEN Len(v.str) > 0
    ELSE IF DOMAIN v = {"num"} THEN v.num # 0
    ELSE IF DOMAIN v = {"int"} THEN v.int # 0
    ELSE IF DOMAIN v = {"none"} THEN FALSE
    ELSE TRUE

EmptyDict == <<>>

Put(m, k, v) == [x \in DOMAIN m \cup {k} |-> IF x = k THEN v ELSE m[x]]

Range(f) == { f[x] : x \in DOMAIN f }

----------------------------------------------------------------------------
(* The schema *)

NumColumns == 11

Names ==
    << "timestamp", "latitude", "longitude", "true_wind_speed",
       "true_wind_direction", "air_temperature", "air_humidity", "dew_point",
       "immediate_air_pressure", "average_air_pressure_for_last_minute",
       "sea_level_air_pressure" >>

DataVars == { Names[i] : i \in 2..NumColumns }

Int32Vars == { "true_wind_direction", "air_humidity" }

ColumnIndex(name) == CHOOSE i \in 1..NumColumns : Names[i] = name

----------------------------------------------------------------------------
(* os.path.basename and os.path.splitext (posixpath / genericpath) *)

\* str.rfind, 1-based: the last position of ch in p, 0 when there is none.
RFind(p, ch) ==
    LET hits == { i \in 1..Len(p) : p[i] = ch }
    IN  IF hits = {} THEN 0 ELSE CHOOSE i \in hits : \A j \in hits : j <= i

Basename(p) == SubSeq(p, RFind(p, "/") + 1, Len(p))

\* genericpath._splitext: the extension starts at the last dot of the last
\* component, unless only dots precede it there.
SplitExt(p) ==
    LET sepIndex == RFind(p, "/")
        dotIndex == RFind(p, ".")
    IN  IF dotIndex > sepIndex
           /\ \E i \in (sepIndex + 1)..(dotIndex - 1) : p[i] # "."
        THEN << SubSeq(p, 1, dotIndex - 1), SubSeq(p, dotIndex, Len(p)) >>
        ELSE << p, << >> >>

\* str(os.path.splitext(os.path.basename(data_file))[0])
BaseName(data_file) == SplitExt(Basename(data_file))[1]

NetcdfFile(data_file) == BaseName(data_file) \o << ".", "n", "c" >>

TargetPath(output_path, netcdf_file) == output_path \o << "/" >> \o netcdf_file

----------------------------------------------------------------------------
(* pd.read_csv(data_file, header=None, names=[the 11 names]) *)

Absent == [absent |-> TRUE]

IsAbsent(content) == DOMAIN content = {"absent"}

\* The cell of row i that pandas files under the j-th name: a file narrower
\* than the names leaves the trailing names NaN, a file wider than the names
\* turns its leading columns into the index and names the rest.
ReadCsvCell(content, i, j) ==
    LET w == content.width
    IN  IF w <= NumColumns
        THEN IF j <= w THEN content.rows[i][j] ELSE NaN
        ELSE content.rows[i][j + (w - NumColumns)]

ReadCsv(content) ==
    [ name \in { Names[j] : j \in 1..NumColumns } |->
        [ i \in 1..Len(content.rows) |->
            ReadCsvCell(content, i, ColumnIndex(name)) ] ]

\* What read_csv raises instead of returning, or "none".  With names= given
\* a file without rows raises nothing: the frame has the 11 columns and no
\* row.
ReadCsvError(content) ==
    IF IsAbsent(content) THEN "FileNotFoundError" ELSE "none"

----------------------------------------------------------------------------
(* xr.Dataset(coords=..., data_vars=...) *)

Int32Min == -2147483647 - 1

\* Casting NaN to int32 is undefined in C: the builds numpy ships give
\* INT_MIN (x86) or 0 (ARM).
NaNCastOutcomes == { Int32Min, 0 }

\* float -> int32 truncates toward zero.
Trunc(tenths) ==
    IF tenths >= 0 THEN tenths \div 10 ELSE -((-tenths) \div 10)

CastInt32(v, nc) == IF IsNaN(v) THEN IntV(nc) ELSE IntV(Trunc(v.num))

AsTypeInt32(col, nc) == [ i \in 1..Len(col) |-> CastInt32(col[i], nc) ]

\* Mutant of TimeCoord: the time coordinate sorted (NaN last).
TimeCoordSorted(d) ==
    LET col == d["timestamp"]
        Before(a, b) == IsNum(a) /\ (IsNaN(b) \/ a.num < b.num)
    IN  [ i \in 1..Len(col) |->
            CHOOSE v \in { col[k] : k \in 1..Len(col) } :
                Cardinality({ k \in 1..Len(col) : Before(col[k], v) }) < i
                /\ Cardinality({ k \in 1..Len(col) :
                                   Before(col[k], v) \/ col[k] = v }) >= i ]

TimeCoord(d) == d["timestamp"]

DataVar(d, name, nc) ==
    IF name \in Int32Vars THEN AsTypeInt32(d[name], nc) ELSE d[name]

XrDataset(d, nc) ==
    [ time      |-> TimeCoord(d),
      data_vars |-> [ name \in DataVars |-> DataVar(d, name, nc) ],
      var_attrs |-> [ name \in DataVars \cup {"time"} |-> EmptyDict ],
      attrs     |-> EmptyDict ]

----------------------------------------------------------------------------
(* Variable attributes: standard_name, units, long_name *)

StandardName(name) ==
    CASE name = "latitude" -> "latitude"
      [] name = "longitude" -> "longitude"
      [] name = "true_wind_speed" -> "wind_speed"
      [] name = "true_wind_direction" -> "wind_from_direction"
      [] name = "air_temperature" -> "air_temperature"
      [] name = "air_humidity" -> "humidity_mixing_ratio"
      [] name = "dew_point" -> "dew_point_temperature"
      [] name = "immediate_air_pressure" -> "air_pressure"
      [] name = "average_air_pressure_for_last_minute" -> "tendency_of_air_pressure"
      [] name = "sea_level_air_pressure" -> "air_pressure_at_mean_sea_level"

Units(name) ==
    CASE name = "latitude" -> "degree_north"
      [] name = "longitude" -> "degree_east"
      [] name = "true_wind_speed" -> "m s-1"
      [] name = "true_wind_direction" -> "degrees"
      [] name = "air_temperature" -> "degree_Celsius"
      [] name = "air_humidity" -> "percent"
      [] name = "dew_point" -> "degree_Celsius"
      [] name = "immediate_air_pressure" -> "hPa"
      [] name = "average_air_pressure_for_last_minute" -> "hPa s-1"
      [] name = "sea_level_air_pressure" -> "hPa"
      [] name = "time" -> "seconds since 1970-01-01 00:00:00"

\* Mutant of UnitsTargets: line 77 (the units of time) left out.
UnitsTargetsDataOnly == DataVars

\* The variables whose attrs line 77 and lines 67-76 give a units entry.
UnitsTargets == DataVars \cup {"time"}

\* ds[key].attrs['long_name'] = str(key)
LongName(key) == key

VarAttrs(name) ==
    LET a0 == EmptyDict
        a1 == IF name \in DataVars
              THEN Put(a0, "standard_name", StandardName(name)) ELSE a0
        a2 == IF name \in UnitsTargets THEN Put(a1, "units", Units(name)) ELSE a1
        a3 == IF name \in DataVars THEN Put(a2, "long_name", LongName(name)) ELSE a2
    IN  a3

Title(data_file) == Str(BaseName(data_file))

----------------------------------------------------------------------------
(* np.nanmin / np.nanmax: np.fmin.reduce / np.fmax.reduce *)

FMin(a, b) ==
    IF IsNaN(a) THEN b
    ELSE IF IsNaN(b) THEN a
    ELSE IF b.num < a.num THEN b ELSE a

FMax(a, b) ==
    IF IsNaN(a) THEN b
    ELSE IF IsNaN(b) THEN a
    ELSE IF b.num > a.num THEN b ELSE a

RECURSIVE FMinReduce(_, _)
FMinReduce(xs, n) ==
    IF n = 1 THEN xs[1] ELSE FMin(FMinReduce(xs, n - 1), xs[n])

RECURSIVE FMaxReduce(_, _)
FMaxReduce(xs, n) ==
    IF n = 1 THEN xs[1] ELSE FMax(FMaxReduce(xs, n - 1), xs[n])

\* Mutant of NanMin: np.min, which lets a NaN through.
MinPropagating(xs) ==
    IF \E i \in 1..Len(xs) : IsNaN(xs[i]) THEN NaN
    ELSE CHOOSE v \in Range(xs) : \A u \in Range(xs) : v.num <= u.num

\* What np.nanmin / np.nanmax raise instead of returning, or "none": a
\* zero-size array has no minimum.
ReduceError(xs) == IF Len(xs) = 0 THEN "ValueError" ELSE "none"

NanMin(xs) == FMinReduce(xs, Len(xs))

NanMax(xs) == FMaxReduce(xs, Len(xs))

DateCreated == Str(<< "TODAY" >>)

Extents(d) ==
    LET e1 == Put(d.attrs, "geospatial_lat_min", NanMin(d.data_vars["latitude"]))
        e2 == Put(e1, "geospatial_lat_max", NanMax(d.data_vars["latitude"]))
        e3 == Put(e2, "geospatial_lon_min", NanMin(d.data_vars["longitude"]))
        e4 == Put(e3, "geospatial_lon_max", NanMax(d.data_vars["longitude"]))
        e5 == Put(e4, "time_coverage_start", NanMin(d.time))
        e6 == Put(e5, "time_coverage_end", NanMax(d.time))
        e7 == Put(e6, "date_created", DateCreated)
    IN  e7

----------------------------------------------------------------------------
(* The configuration and the merge of global_attributes *)

\* config.get(key, {})
ConfigGet(c, key) == IF key \in DOMAIN c THEN c[key] ELSE EmptyDict

\* for key, values in global_attributes.items(): if values: ds.attrs[key] = values
RECURSIVE MergeItems(_, _, _)
MergeItems(attrs, ga, keys) ==
    IF keys = {} THEN attrs
    ELSE LET key == CHOOSE k \in keys : TRUE
             next == IF Truthy(ga[key]) THEN Put(attrs, key, ga[key]) ELSE attrs
         IN  MergeItems(next, ga, keys \ {key})

MergeAttrs(attrs, ga) == MergeItems(attrs, ga, DOMAIN ga)

\* f"{np.datetime64('now')} {os.getlogin()} {os.path.basename(__file__)}
\*   -input {os.path.basename(data_file)} -output {netcdf_file}"
History(data_file, netcdf_file) ==
    Str(<< "NOW", " ", "LOGIN", " ", "convert_csv.py", " ", "-input", " " >>
        \o Basename(data_file)
        \o << " ", "-output", " " >> \o netcdf_file)

----------------------------------------------------------------------------
(* Inputs: paths, file contents, configurations *)

PathA == << "d", "/", "a", ".", "c" >>
PathB == << "e", "/", "a", ".", "c" >>
PathC == << "a", ".", "t" >>
PathD == << "b", ".", "c" >>
PathH == << "d", "/", ".", "h" >>

BatchPaths == { PathA, PathB, PathC, PathD }

SinglePaths == { PathA, PathH }

AllPaths == BatchPaths \cup SinglePaths

OutDir == << "o" >>

\* Rows of 12 cells: a file of width w holds the first w cells of each row.
RowA ==
    << Num(20), Num(345), Num(-1202), Num(51), Num(1805), Num(182),
       Num(609), Num(120), Num(10132), Num(1), Num(10140), Num(7) >>

RowB ==
    << Num(10), Num(-5), NaN, Num(30), Num(-15), Num(-35),
       Num(1000), Num(-41), Num(9980), Num(0), Num(9991), Num(7) >>

RowC ==
    << NaN, NaN, Num(77), NaN, NaN, NaN,
       Num(555), NaN, NaN, NaN, NaN, NaN >>

Rows == { RowA, RowB, RowC }

Widths == { NumColumns - 1, NumColumns, NumColumns + 1 }

File(w, rs) ==
    [ width |-> w, rows |-> [ i \in 1..Len(rs) |-> SubSeq(rs[i], 1, w) ] ]

RowSeqs == UNION { [ 1..k -> Rows ] : k \in 1..MaxRows }

\* A file without rows (0 bytes, or blank lines only) has no column.
EmptyFile == File(0, << >>)

SingleContents == { EmptyFile } \cup { File(w, rs) : w \in Widths, rs \in RowSeqs }

BatchContents ==
    { Absent, File(NumColumns, << RowA >>), File(NumColumns, << RowB >>) }

ComputedKeys ==
    { "title", "geospatial_lat_min", "geospatial_lat_max",
      "geospatial_lon_min", "geospatial_lon_max", "time_coverage_start",
      "time_coverage_end", "date_created", "history" }

AttrKeys == ComputedKeys \cup { "institution" }

ConfigValues == { Str(<< >>), None, Num(0), Str(<< "x" >>) }

SingleGlobalAttributes ==
    { EmptyDict }
    \cup { [ k \in {key} |-> v ] : key \in AttrKeys, v \in ConfigValues }
    \cup { [ title |-> Str(<< "x" >>), history |-> Str(<< >>) ],
           [ history |-> Str(<< "x" >>), institution |-> None ] }

BatchGlobalAttributes ==
    [ institution |-> Str(<< "x" >>), title |-> Str(<< >>) ]

PathSeqs == UNION { [ 1..k -> BatchPaths ] : k \in 0..MaxFiles }

ConfigKeys == { "input_path", "output_path", "global_attributes" }

MakeConfig(keys, files, outp, ga) ==
    [ k \in keys |->
        CASE k = "input_path" -> files
          [] k = "output_path" -> outp
          [] k = "global_attributes" -> ga ]

\* One file, any content, any single global attribute.
InitSingle ==
    \E p \in SinglePaths, c \in SingleContents, ga \in SingleGlobalAttributes :
        /\ config = MakeConfig(ConfigKeys, << p >>, << OutDir >>, ga)
        /\ disk = [ q \in AllPaths |-> IF q = p THEN c ELSE Absent ]

\* The configurations of the batch runs: complete, or with one key missing,
\* or with output_path the empty list.
BatchKeySets ==
    { ConfigKeys } \cup { ConfigKeys \ {k} : k \in ConfigKeys }

\* A list of files, each good or absent.
InitBatch ==
    \E keys \in BatchKeySets, files \in PathSeqs,
       outp \in { << >>, << OutDir >> }, d \in [ AllPaths -> BatchContents ] :
        /\ "input_path" \notin keys => files = << >>
        /\ "output_path" \notin keys => outp = << >>
        /\ outp = << >> => keys \in { ConfigKeys, ConfigKeys \ {"output_path"} }
        /\ \A q \in AllPaths \ Range(files) : d[q] = Absent
        /\ config = MakeConfig(keys, files, outp, BatchGlobalAttributes)
        /\ disk = d

Init ==
    /\ InitSingle \/ InitBatch
    /\ pc = "for"
    /\ idx = 0
    /\ df = << >>
    /\ ds = << >>
    /\ out = << >>
    /\ fs = << >>
    /\ calls = << >>
    /\ trace = << >>
    /\ err = "none"

----------------------------------------------------------------------------
(* convert_csv_to_netcdf, statement by statement *)

DataFiles == ConfigGet(config, "input_path")

DataFile == DataFiles[idx]

\* The order of the statements of the loop body.
StepAfter(s) ==
    CASE s = "read" -> "build"
      [] s = "build" -> "annotate"
      [] s = "annotate" -> "extents"
      [] s = "extents" -> "merge"
      [] s = "merge" -> "resolve"
      [] s = "resolve" -> "history"
      [] s = "history" -> "write"
      [] s = "write" -> "print"
      [] s = "print" -> "for"

\* Mutant of Raise: the exception is caught and the loop goes on.
RaiseAndContinue(e) ==
    /\ pc' = "for"
    /\ err' = e
    /\ UNCHANGED << config, disk, idx, df, ds, out, fs, calls, trace >>

\* An exception leaves convert_csv_to_netcdf: nothing catches it.
Raise(e) ==
    /\ pc' = "error"
    /\ err' = e
    /\ UNCHANGED << config, disk, idx, df, ds, out, fs, calls, trace >>

\* for data_file in data_files: the next file
ForNext ==
    /\ pc = "for"
    /\ idx < Len(DataFiles)
    /\ idx' = idx + 1
    /\ pc' = "read"
    /\ trace' = << >>
    /\ UNCHANGED << config, disk, df, ds, out, fs, calls, err >>

\* for data_file in data_files: the list is exhausted, the function returns
ForEnd ==
    /\ pc = "for"
    /\ idx = Len(DataFiles)
    /\ pc' = "done"
    /\ UNCHANGED << config, disk, idx, df, ds, out, fs, calls, trace, err >>

ReadCsvOk ==
    /\ pc = "read"
    /\ ReadCsvError(disk[DataFile]) = "none"
    /\ df' = ReadCsv(disk[DataFile])
    /\ pc' = StepAfter("read")
    /\ trace' = Append(trace, "parse")
    /\ UNCHANGED << config, disk, idx, ds, out, fs, calls, err >>

ReadCsvFail ==
    /\ pc = "read"
    /\ ReadCsvError(disk[DataFile]) # "none"
    /\ Raise(ReadCsvError(disk[DataFile]))

BuildDataset ==
    /\ pc = "build"
    /\ \E nc \in NaNCastOutcomes : ds' = XrDataset(df, nc)
    /\ pc' = StepAfter("build")
    /\ trace' = Append(trace, "build")
    /\ UNCHANGED << config, disk, idx, df, out, fs, calls, err >>

Annotate ==
    /\ pc = "annotate"
    /\ ds' = [ ds EXCEPT
                 !.var_attrs = [ name \in DOMAIN ds.var_attrs |-> VarAttrs(name) ],
                 !.attrs = Put(ds.attrs, "title", Title(DataFile)) ]
    /\ pc' = StepAfter("annotate")
    /\ trace' = Append(trace, "annotate")
    /\ UNCHANGED << config, disk, idx, df, out, fs, calls, err >>

\* Line 88 is the first reduction: on a dataset without rows it raises.
ComputeExtentsFail ==
    /\ pc = "extents"
    /\ ReduceError(ds.data_vars["latitude"]) # "none"
    /\ Raise(ReduceError(ds.data_vars["latitude"]))

ComputeExtents ==
    /\ pc = "extents"
    /\ ReduceError(ds.data_vars["latitude"]) = "none"
    /\ ds' = [ ds EXCEPT !.attrs = Extents(ds) ]
    /\ pc' = StepAfter("extents")
    /\ trace' = Append(trace, "extents")
    /\ UNCHANGED << config, disk, idx, df, out, fs, calls, err >>

MergeGlobalAttributes ==
    /\ pc = "merge"
    /\ ds' = [ ds EXCEPT
                 !.attrs = MergeAttrs(ds.attrs, ConfigGet(config, "global_attributes")) ]
    /\ pc' = StepAfter("merge")
    /\ trace' = Append(trace, "merge")
    /\ UNCHANGED << config, disk, idx, df, out, fs, calls, err >>

\* config.get('output_path', {})[0] raises on {} and on [].
OutputPathError ==
    IF "output_path" \notin DOMAIN config THEN "KeyError"
    ELSE IF Len(config["output_path"]) = 0 THEN "IndexError"
    ELSE "none"

ResolveOutputOk ==
    /\ pc = "resolve"
    /\ OutputPathError = "none"
    /\ out' = [ netcdf_file |-> NetcdfFile(DataFile),
                output_path |-> ConfigGet(config, "output_path")[1] ]
    /\ pc' = StepAfter("resolve")
    /\ UNCHANGED << config, disk, idx, df, ds, fs, calls, trace, err >>

ResolveOutputFail ==
    /\ pc = "resolve"
    /\ OutputPathError # "none"
    /\ Raise(OutputPathError)

RecordHistory ==
    /\ pc = "history"
    /\ ds' = [ ds EXCEPT
                 !.attrs = Put(ds.attrs, "history",
                               History(DataFile, out.netcdf_file)) ]
    /\ pc' = StepAfter("history")
    /\ trace' = Append(trace, "history")
    /\ UNCHANGED << config, disk, idx, df, out, fs, calls, err >>

\* os.getlogin() raises OSError when the process has no controlling
\* terminal: the f-string is not built and history is not assigned.
RecordHistoryFail ==
    /\ pc = "history"
    /\ Raise("OSError")

Target == TargetPath(out.output_path, out.netcdf_file)

\* What a write that failed midway leaves at its target.
Partial == [partial |-> TRUE]

WriteNetcdfOk ==
    /\ pc = "write"
    /\ fs' = Put(fs, Target, ds)
    /\ calls' = Append(calls, Target)
    /\ pc' = StepAfter("write")
    /\ trace' = Append(trace, "write")
    /\ UNCHANGED << config, disk, idx, df, ds, out, err >>

\* to_netcdf raises.  It writes in place at the final path: a failure
\* before the target is opened (no such directory, permission denied)
\* leaves the artifacts as they are, a failure after it (disk full,
\* unsupported value) leaves the target truncated or partial.
WriteNetcdfFail ==
    /\ pc = "write"
    /\ fs' \in { fs, Put(fs, Target, Partial) }
    /\ calls' = Append(calls, Target)
    /\ pc' = "error"
    /\ err' = "OSError"
    /\ UNCHANGED << config, disk, idx, df, ds, out, trace >>

\* the prints of lines 111-116, then back to the loop head
PrintSummary ==
    /\ pc = "print"
    /\ pc' = StepAfter("print")
    /\ UNCHANGED << config, disk, idx, df, ds, out, fs, calls, trace, err >>

Next ==
    \/ ForNext
    \/ ForEnd
    \/ ReadCsvOk
    \/ ReadCsvFail
    \/ BuildDataset
    \/ Annotate
    \/ ComputeExtents
    \/ ComputeExtentsFail
    \/ MergeGlobalAttributes
    \/ ResolveOutputOk
    \/ ResolveOutputFail
    \/ RecordHistory
    \/ RecordHistoryFail
    \/ WriteNetcdfOk
    \/ WriteNetcdfFail
    \/ PrintSummary

Spec == Init /\ [][Next]_vars

----------------------------------------------------------------------------
(* Properties *)

GlobalAttributes == ConfigGet(config, "global_attributes")

\* The empty values of the specification: the empty string, None, zero.
EmptyValue(v) == v \in { Str(<< >>), None, Num(0), IntV(0) }

Supplied(k) == k \in DOMAIN GlobalAttributes /\ ~EmptyValue(GlobalAttributes[k])

\* The dataset is the argument of the to_netcdf call that comes next.
AtWriter == pc = "write"

Content == disk[DataFile]

\* C1: every non-empty entry of config['global_attributes'],
\* history included, is what the dataset handed to the Writer holds under
\* that key.
C1_CallerOverridesEveryComputed ==
    AtWriter =>
        \A k \in DOMAIN GlobalAttributes :
            ~EmptyValue(GlobalAttributes[k]) =>
                k \in DOMAIN ds.attrs /\ ds.attrs[k] = GlobalAttributes[k]

\* C2: the merge step leaves the dataset's attributes as they are under
\* every key that global_attributes maps to a falsy value: the key is
\* neither added nor removed, and a value already there is kept.
C2_FalsyEntriesSkipped ==
    [][ pc = "merge" =>
          \A k \in DOMAIN GlobalAttributes :
              EmptyValue(GlobalAttributes[k]) =>
                  /\ (k \in DOMAIN ds'.attrs) = (k \in DOMAIN ds.attrs)
                  /\ k \in DOMAIN ds.attrs => ds'.attrs[k] = ds.attrs[k] ]_vars

C2_Witness ==
    /\ trace # << >>
    /\ trace[Len(trace)] = "merge"
    /\ "title" \in DOMAIN GlobalAttributes
    /\ EmptyValue(GlobalAttributes["title"])
    /\ ds.attrs["title"] = Title(DataFile)
    /\ "institution" \notin DOMAIN ds.attrs

\* C3: a dataset is handed to the Writer, and an artifact written, only
\* from a source of exactly 11 columns; any other width ends the file's
\* conversion in an error before that.
C3_OnlyElevenColumnsConverted ==
    pc \in { "write", "print" } => Content.width = NumColumns

\* C4: a run with a complete configuration over distinct input paths that
\* returns normally leaves one artifact per input file.
C4_OneArtifactPerInputFile ==
    ( /\ pc = "done"
      /\ ConfigKeys \subseteq DOMAIN config
      /\ \A i, j \in 1..Len(DataFiles) : DataFiles[i] = DataFiles[j] => i = j )
        => Cardinality(DOMAIN fs) = Len(DataFiles)

\* C5 (as stated): a failure aborts only the file it happens in, so the run
\* never ends before the last file of input_path has had its turn.
C5_LaterFilesNotAborted ==
    pc \in { "done", "error" } => idx = Len(DataFiles)

\* C5 (amended): a failure while converting file k is surfaced to the
\* caller and ends the run: nothing runs after it and the files after k are
\* never read; one write was made for each file before k; the step that
\* raises changes no artifact, except that a failing write may leave the
\* target path of file k itself partial.
C5_FailureEndsRun ==
    /\ [] ( /\ (err # "none") = (pc = "error")
            /\ pc = "error" =>
                  /\ idx \in 1..Len(DataFiles)
                  /\ Len(calls) \in { idx - 1, idx }
                  /\ \A i \in 1..(idx - 1) :
                        calls[i] = TargetPath(out.output_path,
                                              NetcdfFile(DataFiles[i])) )
    /\ [][ /\ pc # "error"
           /\ pc' = "error" =>
                 /\ pc # "write" => fs' = fs /\ calls' = calls
                 /\ pc = "write" =>
                       /\ calls' = Append(calls, Target)
                       /\ DOMAIN fs \subseteq DOMAIN fs'
                       /\ \A path \in DOMAIN fs' \ {Target} :
                             path \in DOMAIN fs /\ fs'[path] = fs[path]
                       /\ Target \in DOMAIN fs' =>
                             fs'[Target] = Partial
                             \/ (Target \in DOMAIN fs /\ fs'[Target] = fs[Target])
         ]_vars

C5_Witness ==
    /\ pc = "error"
    /\ idx = 2
    /\ idx < Len(DataFiles)
    /\ Len(calls) = 2
    /\ calls[1] # calls[2]
    /\ { calls[1], calls[2] } \subseteq DOMAIN fs
    /\ fs[calls[1]] # Partial
    /\ fs[calls[2]] = Partial

\* C6: a configuration without input_path, output_path or global_attributes
\* never lets the function return normally, read a file or write one.
C6_IncompleteConfigFailsAtOnce ==
    ~(ConfigKeys \subseteq DOMAIN config) =>
        /\ pc # "done"
        /\ trace = << >>
        /\ calls = << >>

\* The whole number n is the float t (in tenths) truncated toward zero.
IsTruncationOf(n, t) ==
    IF t >= 0 THEN n * 10 <= t /\ t < n * 10 + 10
    ELSE n * 10 - 10 < t /\ t <= n * 10

\* C7: from a file of r rows of 11 columns, the time coordinate handed to
\* the Writer is the timestamp column, row for row, and every data variable
\* has r values, the i-th one taken from row i (truncated to a whole number
\* for the two int32 variables).
C7_RowsPreserved ==
    (AtWriter /\ Content.width = NumColumns) =>
        LET rows == Content.rows
            r == Len(rows)
        IN  /\ Len(ds.time) = r
            /\ \A i \in 1..r : ds.time[i] = rows[i][1]
            /\ \A j \in 2..NumColumns :
                 LET var == ds.data_vars[Names[j]]
                 IN  /\ Len(var) = r
                     /\ \A i \in 1..r :
                          IF Names[j] \in Int32Vars
                          THEN /\ DOMAIN var[i] = {"int"}
                               /\ IsNum(rows[i][j]) =>
                                    IsTruncationOf(var[i].int, rows[i][j].num)
                          ELSE var[i] = rows[i][j]

C7_Witness ==
    /\ AtWriter
    /\ Content.width = NumColumns
    /\ ds.time = << Num(20), Num(10), Num(20) >>
    /\ ds.data_vars["true_wind_direction"] = << IntV(180), IntV(-1), IntV(180) >>
    /\ ds.data_vars["latitude"] = << Num(345), Num(-5), Num(345) >>

\* The standard-name table of the specification.
SpecStandardNames ==
    [ latitude |-> "latitude",
      longitude |-> "longitude",
      true_wind_speed |-> "wind_speed",
      true_wind_direction |-> "wind_from_direction",
      air_temperature |-> "air_temperature",
      air_humidity |-> "humidity_mixing_ratio",
      dew_point |-> "dew_point_temperature",
      immediate_air_pressure |-> "air_pressure",
      average_air_pressure_for_last_minute |-> "tendency_of_air_pressure",
      sea_level_air_pressure |-> "air_pressure_at_mean_sea_level" ]

\* C8: in the dataset handed to the Writer the time coordinate and every
\* data variable have a non-empty units attribute, and every data variable
\* has the standard_name of the table and its own name as long_name.
C8_VariablesAnnotated ==
    AtWriter =>
        /\ \A j \in 2..NumColumns :
             LET a == ds.var_attrs[Names[j]]
             IN  /\ { "units", "standard_name", "long_name" } \subseteq DOMAIN a
                 /\ a["units"] # ""
                 /\ a["standard_name"] # ""
                 /\ a["standard_name"] = SpecStandardNames[Names[j]]
                 /\ a["long_name"] = Names[j]
        /\ "units" \in DOMAIN ds.var_attrs["time"]
        /\ ds.var_attrs["time"]["units"] # ""

C8_Witness ==
    /\ AtWriter
    /\ ds.var_attrs["time"]["units"] = "seconds since 1970-01-01 00:00:00"
    /\ ds.var_attrs["air_humidity"] =
         [ units |-> "percent", standard_name |-> "humidity_mixing_ratio",
           long_name |-> "air_humidity" ]

Samples(xs) == { xs[i].num : i \in { k \in 1..Len(xs) : IsNum(xs[k]) } }

\* The attributes lo and hi are the least and the greatest sample of xs.
IsExtentOf(lo, hi, xs) ==
    /\ lo \in DOMAIN ds.attrs /\ hi \in DOMAIN ds.attrs
    /\ IsNum(ds.attrs[lo]) /\ IsNum(ds.attrs[hi])
    /\ ds.attrs[lo].num \in Samples(xs)
    /\ ds.attrs[hi].num \in Samples(xs)
    /\ \A x \in Samples(xs) : ds.attrs[lo].num <= x /\ x <= ds.attrs[hi].num
    /\ ds.attrs[lo].num <= ds.attrs[hi].num

\* The merge has not replaced the computed attribute k.
StillComputed(k) == "merge" \notin Range(trace) \/ ~Supplied(k)

\* C9: once the extents are computed, and for as long as the configuration
\* does not replace them, the lat, lon and time extent attributes are the
\* least and the greatest non-missing sample of their variable whenever it
\* has one, so each minimum is at most its maximum and none is NaN.
C9_ExtentsIgnoreMissing ==
    "extents" \in Range(trace) =>
        /\ ( /\ Samples(ds.data_vars["latitude"]) # {}
             /\ StillComputed("geospatial_lat_min")
             /\ StillComputed("geospatial_lat_max") )
              => IsExtentOf("geospatial_lat_min", "geospatial_lat_max",
                            ds.data_vars["latitude"])
        /\ ( /\ Samples(ds.data_vars["longitude"]) # {}
             /\ StillComputed("geospatial_lon_min")
             /\ StillComputed("geospatial_lon_max") )
              => IsExtentOf("geospatial_lon_min", "geospatial_lon_max",
                            ds.data_vars["longitude"])
        /\ ( /\ Samples(ds.time) # {}
             /\ StillComputed("time_coverage_start")
             /\ StillComputed("time_coverage_end") )
              => IsExtentOf("time_coverage_start", "time_coverage_end", ds.time)

C9_Witness ==
    /\ AtWriter
    /\ ds.data_vars["latitude"] = << Num(345), NaN, Num(-5) >>
    /\ ds.attrs["geospatial_lat_min"] = Num(-5)
    /\ ds.attrs["geospatial_lat_max"] = Num(345)
    /\ ds.time = << Num(20), NaN, Num(10) >>
    /\ ds.attrs["time_coverage_start"] = Num(10)
    /\ ds.attrs["time_coverage_end"] = Num(20)

\* C10: the steps of a file run in the order parse, build,
\* annotate, extents, history, merge, write, so the merge is the last
\* change of the attributes before the one write.
C10_MergeIsLastMutation ==
    pc = "print" =>
        trace = << "parse", "build", "annotate", "extents", "history",
                   "merge", "write" >>

====
